---- MODULE Spec2Model ----
(***************************************************************************)
(* miti-loki: a Cloudflare Worker that forwards log submissions to the     *)
(* Loki push API.  src/index.js holds three builds of the worker:          *)
(*   variant 1  (lines   1-208)  JSON body, fixed labels proxy/ip          *)
(*   variant 2  (lines 210-346)  plain-text body, fixed label source       *)
(*   variant 3  (lines 348-587)  JSON body, labels from the query string   *)
(* One behaviour of the model is one invocation of one deployed build:     *)
(* the entry point runs up to the awaited outbound fetch (or to a return), *)
(* then Loki answers or the fetch rejects.                                 *)
(***************************************************************************)
EXTENDS Integers, Sequences, FiniteSets, TLC

VARIABLES variant, env, pc, request, now, ret, outbound, lokiResponse, response

vars == <<variant, env, pc, request, now, ret, outbound, lokiResponse, response>>

(***************************************************************************)
(* JavaScript values.  A value is a record with its type tag t and its     *)
(* String() text v; the fields a JSON object may carry are added by the    *)
(* constructors below.                                                     *)
(***************************************************************************)
Leaf(t, v) == [t |-> t, v |-> v]
Undefined == Leaf("undefined", "undefined")
Null == Leaf("null", "null")
Str(s) == Leaf("str", s)
Num(s) == Leaf("num", s)
Bool(s) == Leaf("bool", s)
EmptyArr == Leaf("arr", "")
EmptyObj == Leaf("obj", "[object Object]")

\* JavaScript truthiness: the test behind !x, x || y and if (x).
Truthy(x) ==
  CASE x.t = "undefined" -> FALSE
    [] x.t = "null" -> FALSE
    [] x.t = "bool" -> x.v = "true"
    [] x.t = "num" -> x.v # "0"
    [] x.t = "str" -> x.v # ""
    [] OTHER -> TRUE

\* typeof x
TypeOf(x) ==
  CASE x.t = "undefined" -> "undefined"
    [] x.t = "bool" -> "boolean"
    [] x.t = "num" -> "number"
    [] x.t = "str" -> "string"
    [] OTHER -> "object"

\* Array.isArray(x)
IsArray(x) == x.t = "arr"

\* x.toString() and `${x}`
JsToString(x) == x.v

\* (Date.now() * 1000000).toString()
NowNanos(ms) == ToString(ms * 1000000)

\* A metadata value: a leaf, or an object with its Object.entries sequence kv.
Meta(t, v, kv) == [t |-> t, v |-> v, kv |-> kv]
MetaLeaf(x) == Meta(x.t, x.v, <<>>)
MetaObj(kv) == Meta("obj", "[object Object]", kv)

\* A parsed JSON value as the handler reads it: the three properties of a log
\* entry (undefined on a value that has none) and, for an array, its items.
Entry(t, v, message, timestamp, metadata) ==
  [t |-> t, v |-> v, message |-> message, timestamp |-> timestamp, metadata |-> metadata]
LogObj(message, timestamp, metadata) ==
  Entry("obj", "[object Object]", message, timestamp, metadata)
Primitive(x) == Entry(x.t, x.v, Undefined, Undefined, MetaLeaf(Undefined))
Json(e, items) ==
  [t |-> e.t, v |-> e.v, message |-> e.message, timestamp |-> e.timestamp,
   metadata |-> e.metadata, items |-> items]
JsonArray(items) == Json(Primitive(EmptyArr), items)
JsonValue(e) == Json(e, <<>>)
AsEntry(d) == Entry(d.t, d.v, d.message, d.timestamp, d.metadata)

\* A request body: its text is empty or not, and JSON.parse either throws on
\* it or yields data.
Body(empty, parses, data) == [empty |-> empty, parses |-> parses, data |-> data]
EmptyBody == Body(TRUE, FALSE, JsonValue(Primitive(Undefined)))
BadJsonBody == Body(FALSE, FALSE, JsonValue(Primitive(Undefined)))
JsonBody(data) == Body(FALSE, TRUE, data)

(***************************************************************************)
(* Responses.  A header that is not set is NoHeader.                       *)
(***************************************************************************)
NoHeader == "<absent>"
Headers(ct, acao, acam, acah, maxAge, location) ==
  [ContentType |-> ct, AllowOrigin |-> acao, AllowMethods |-> acam,
   AllowHeaders |-> acah, MaxAge |-> maxAge, Location |-> location]
Text(text, key, label) == [text |-> text, key |-> key, label |-> label]
Plain(text) == Text(text, "", <<>>)
NullBody == Plain("<null>")
Response(body, status, statusText, headers) ==
  [body |-> body, status |-> status, statusText |-> statusText, headers |-> headers]
NoResponse == Response(NullBody, 0, "", Headers(NoHeader, NoHeader, NoHeader, NoHeader, NoHeader, NoHeader))

\* ErrorResponse with the headers object left out.
ErrorResponse_NoCors(body, status) ==
  Response(body, status, "", Headers(NoHeader, NoHeader, NoHeader, NoHeader, NoHeader, NoHeader))

\* new Response(text, {status, headers: {'Access-Control-Allow-Origin': '*'}})
ErrorResponse(body, status) ==
  Response(body, status, "", Headers(NoHeader, "*", NoHeader, NoHeader, NoHeader, NoHeader))

\* What the handler is at when it stops: a return statement with its
\* response, or the awaited fetch with its outbound call.
Return(site, resp) == [kind |-> "return", site |-> site, response |-> resp, call |-> <<>>]
Await(call) == [kind |-> "fetch", site |-> "fetch", response |-> NoResponse, call |-> <<call>>]

(***************************************************************************)
(* Label names (variant 3).  A name is a sequence of characters.           *)
(***************************************************************************)
Lower == {"a","b","c","d","e","f","g","h","i","j","k","l","m",
          "n","o","p","q","r","s","t","u","v","w","x","y","z"}
Upper == {"A","B","C","D","E","F","G","H","I","J","K","L","M",
          "N","O","P","Q","R","S","T","U","V","W","X","Y","Z"}
Digit == {"0","1","2","3","4","5","6","7","8","9"}

\* /^[a-zA-Z_:][a-zA-Z0-9_:]*$/.test(name)
LabelRegexTest(name) ==
  /\ Len(name) >= 1
  /\ name[1] \in Lower \cup Upper \cup {"_", ":"}
  /\ \A i \in 2..Len(name) : name[i] \in Lower \cup Upper \cup Digit \cup {"_", ":"}

\* name.startsWith(c), name.endsWith(c)
StartsWith(name, c) == Len(name) >= 1 /\ name[1] = c
EndsWith(name, c) == Len(name) >= 1 /\ name[Len(name)] = c

\* validateLabelName with the underscore rule left out.
validateLabelName_RegexOnly(name) == LabelRegexTest(name)

validateLabelName(name) ==
  IF ~LabelRegexTest(name) THEN FALSE
  ELSE IF StartsWith(name, "_") /\ EndsWith(name, "_") THEN FALSE
  ELSE TRUE

L_proxy == <<"p","r","o","x","y">>
L_ip == <<"i","p">>
L_source == <<"s","o","u","r","c","e">>

\* stream[key] = value
Put(stream, key, value) ==
  [k \in (DOMAIN stream) \cup {key} |-> IF k = key THEN value ELSE stream[k]]

InvalidLabelResponse(key) ==
  ErrorResponse(Text("Invalid label name", "", key), 400)

\* for (const [key, value] of url.searchParams.entries()) { ... }
RECURSIVE LabelLoop(_, _, _)
LabelLoop(params, i, stream) ==
  IF i > Len(params) THEN [kind |-> "ok", stream |-> stream, response |-> NoResponse]
  ELSE IF ~validateLabelName(params[i][1])
    THEN [kind |-> "return", stream |-> stream,
          response |-> InvalidLabelResponse(params[i][1])]
  ELSE LabelLoop(params, i + 1, Put(stream, params[i][1], params[i][2]))

\* InjectLabels that keeps a label the caller already set.
InjectLabels_KeepCaller(stream, ip) ==
  LET withProxy == IF L_proxy \in DOMAIN stream THEN stream ELSE Put(stream, L_proxy, "miti-loki")
  IN IF L_ip \in DOMAIN withProxy THEN withProxy ELSE Put(withProxy, L_ip, ip)

\* stream.proxy = 'miti-loki'; stream.ip = clientIP;
InjectLabels(stream, ip) == Put(Put(stream, L_proxy, "miti-loki"), L_ip, ip)

\* request.headers.get('CF-Connecting-IP') || request.headers.get('X-Forwarded-For') || 'unknown'
clientIP(headers) ==
  IF Truthy(headers.cf) THEN headers.cf.v
  ELSE IF Truthy(headers.xff) THEN headers.xff.v
  ELSE "unknown"

(***************************************************************************)
(* The entry loop of the JSON variants.                                    *)
(***************************************************************************)
\* Array.isArray(data) ? data : [data]
Logs(data) == IF IsArray(data) THEN data.items ELSE <<AsEntry(data)>>

\* entry.timestamp || (Date.now() * 1000000).toString()
Timestamp(entry, ms) ==
  IF Truthy(entry.timestamp) THEN entry.timestamp ELSE Str(NowNanos(ms))

\* typeof entry.metadata !== 'object' || Array.isArray(entry.metadata)
MetadataNotObject(metadata) == TypeOf(metadata) # "object" \/ IsArray(metadata)

\* typeof value === 'object' && value !== null
IsNested(value) == TypeOf(value) = "object" /\ value.t # "null"

\* The index of the first nested value in Object.entries(metadata), 0 if none.
RECURSIVE FlatLoop(_, _)
FlatLoop(kv, k) ==
  IF k > Len(kv) THEN 0
  ELSE IF IsNested(kv[k][2]) THEN k
  ELSE FlatLoop(kv, k + 1)

\* ValueTuple that pushes the metadata whenever it is truthy, keys or not.
ValueTuple_AlwaysMetadata(entry, timestamp) ==
  IF Truthy(entry.metadata)
    THEN <<JsToString(timestamp), entry.message, entry.metadata>>
    ELSE <<JsToString(timestamp), entry.message>>

\* The tuple pushed for an entry whose metadata passed the checks.
ValueTuple(entry, timestamp) ==
  IF Truthy(entry.metadata)
    THEN IF Len(entry.metadata.kv) > 0
           THEN <<JsToString(timestamp), entry.message, entry.metadata>>
           ELSE <<JsToString(timestamp), entry.message>>
    ELSE <<JsToString(timestamp), entry.message>>

\* Whether the metadata checks run for this entry: if (entry.metadata)
MetadataPresent(entry) == Truthy(entry.metadata)

\* for (const entry of logs) { ... }: "ok" with the values, "return" with a
\* 400, or "throw" (reading a property of null).
RECURSIVE EntryLoop(_, _, _, _)
EntryLoop(logs, i, values, ms) ==
  IF i > Len(logs) THEN [kind |-> "ok", values |-> values, site |-> "", response |-> NoResponse]
  ELSE LET entry == logs[i] IN
    IF entry.t \in {"null", "undefined"}
      THEN [kind |-> "throw", values |-> values, site |-> "", response |-> NoResponse]
    ELSE IF ~Truthy(entry.message)
      THEN [kind |-> "return", values |-> values, site |-> "message",
            response |-> ErrorResponse(Plain("Each log entry must have a \"message\" field"), 400)]
    ELSE IF MetadataPresent(entry) /\ MetadataNotObject(entry.metadata)
      THEN [kind |-> "return", values |-> values, site |-> "metadata_type",
            response |-> ErrorResponse(Plain("Metadata must be an object"), 400)]
    ELSE IF MetadataPresent(entry) /\ FlatLoop(entry.metadata.kv, 1) # 0
      THEN [kind |-> "return", values |-> values, site |-> "metadata_nested",
            response |-> ErrorResponse(
              Text("Metadata field contains nested object. Only flat key-value pairs are allowed.",
                   entry.metadata.kv[FlatLoop(entry.metadata.kv, 1)][1], <<>>), 400)]
    ELSE EntryLoop(logs, i + 1, Append(values, ValueTuple(entry, Timestamp(entry, ms))), ms)

(***************************************************************************)
(* Backend dispatch.                                                       *)
(***************************************************************************)
\* env.LOKI_PORT || '443'
lokiPort(e) == IF Truthy(e.LOKI_PORT) THEN e.LOKI_PORT ELSE Str("443")

\* protocol with the loose comparison lokiPort == '443'.
protocol_LooseEquals(port) == IF port.v = "443" THEN "https" ELSE "http"

\* lokiPort === '443' ? 'https' : 'http'
protocol(port) == IF port.t = "str" /\ port.v = "443" THEN "https" ELSE "http"

\* `${protocol}://${env.LOKI_HOST}:${lokiPort}/loki/api/v1/push`
lokiUrl(e) ==
  [scheme |-> protocol(lokiPort(e)), host |-> JsToString(e.LOKI_HOST),
   port |-> JsToString(lokiPort(e)), path |-> "/loki/api/v1/push"]

\* btoa(`${env.LOKI_USERNAME}:${env.LOKI_PASSWORD}`)
auth(e) == <<"btoa", JsToString(e.LOKI_USERNAME), ":", JsToString(e.LOKI_PASSWORD)>>

\* fetch(lokiUrl, {method: 'POST', headers: {...}, body: JSON.stringify(lokiPayload)})
Call(e, stream, values) ==
  [url |-> lokiUrl(e), method |-> "POST", contentType |-> "application/json",
   authorization |-> <<"Basic", auth(e)>>,
   payload |-> [stream |-> stream, values |-> values]]

\* !env.LOKI_HOST || !env.LOKI_USERNAME || !env.LOKI_PASSWORD
MissingCredentials(e) ==
  ~Truthy(e.LOKI_HOST) \/ ~Truthy(e.LOKI_USERNAME) \/ ~Truthy(e.LOKI_PASSWORD)

\* Response.redirect(url, 302): a Location header and nothing else.
Redirect(location) ==
  Response(NullBody, 302, "", Headers(NoHeader, NoHeader, NoHeader, NoHeader, NoHeader, location))

MethodNotAllowed == ErrorResponse(Plain("Method not allowed. Please use POST."), 405)
ConfigError == ErrorResponse(Plain("Server configuration error: Missing Loki credentials"), 500)
BodyRequired == ErrorResponse(Plain("Request body is required"), 400)
InvalidJson == ErrorResponse(Plain("Invalid JSON: <parseError.message>"), 400)
CaughtError == ErrorResponse(Plain("Error forwarding to Loki: <error.message>"), 500)

\* Preamble with the credentials check left out.
Preamble_NoConfigCheck(req, e, docs, rest) ==
  IF req.method = "GET" THEN Return("redirect", Redirect(docs))
  ELSE IF req.method # "POST" THEN Return("method", MethodNotAllowed)
  ELSE rest

\* The statements every variant runs before its try block.
Preamble(req, e, docs, rest) ==
  IF req.method = "GET" THEN Return("redirect", Redirect(docs))
  ELSE IF req.method # "POST" THEN Return("method", MethodNotAllowed)
  ELSE IF MissingCredentials(e) THEN Return("config", ConfigError)
  ELSE rest

\* Variants 1 and 3 from the try block to the end of the entry loop; cont is
\* what follows the loop.
AfterEntries(loop, cont) ==
  IF loop.kind = "throw" THEN Return("catch", CaughtError)
  ELSE IF loop.kind = "return" THEN Return(loop.site, loop.response)
  ELSE cont

\* Variant 1: JSON body, labels proxy and ip.
handleRequest_json(req, e, ms) ==
  Preamble(req, e, "https://github.com/tiennm99/miti-loki",
    IF req.body.empty THEN Return("body", BodyRequired)
    ELSE IF ~req.body.parses THEN Return("json", InvalidJson)
    ELSE LET loop == EntryLoop(Logs(req.body.data), 1, <<>>, ms) IN
      AfterEntries(loop,
        Await(Call(e, InjectLabels(<<>>, clientIP(req.headers)), loop.values))))

\* Variant 2: the body text is the one log line.
handleRequest_text(req, e, ms) ==
  Preamble(req, e, "https://github.com/tiennnm99/miti-loki",
    IF req.body.empty THEN Return("body", BodyRequired)
    ELSE Await(Call(e, Put(<<>>, L_source, "miti-loki"),
                    <<<<NowNanos(ms), req.body>>>>)))

\* Variant 3: JSON body, labels from the query string, then proxy and ip.
handleRequest_labels(req, e, ms) ==
  Preamble(req, e, "https://github.com/tiennm99/miti-loki",
    IF req.body.empty THEN Return("body", BodyRequired)
    ELSE IF ~req.body.parses THEN Return("json", InvalidJson)
    ELSE LET loop == EntryLoop(Logs(req.body.data), 1, <<>>, ms) IN
      AfterEntries(loop,
        LET labels == LabelLoop(req.query, 1, <<>>) IN
          IF labels.kind = "return" THEN Return("label", labels.response)
          ELSE Await(Call(e, InjectLabels(labels.stream, clientIP(req.headers)), loop.values))))

handleRequest(v, req, e, ms) ==
  CASE v = 1 -> handleRequest_json(req, e, ms)
    [] v = 2 -> handleRequest_text(req, e, ms)
    [] v = 3 -> handleRequest_labels(req, e, ms)

handleOptions ==
  Response(NullBody, 204, "", Headers(NoHeader, "*", "POST, OPTIONS", "Content-Type", "86400", NoHeader))

\* export default { async fetch(request, env) { ... } }
fetchEntry(v, req, e, ms) ==
  IF req.method = "OPTIONS" THEN Return("options", handleOptions)
  ELSE handleRequest(v, req, e, ms)

(***************************************************************************)
(* The relay of Loki's response.                                           *)
(***************************************************************************)
\* The statuses for which the Response constructor accepts no body.
NullBodyStatus(status) == status \in {101, 204, 205, 304}

\* lokiResponse.headers.get('Content-Type') || 'text/plain'
RelayContentType(r) == IF Truthy(r.contentType) THEN r.contentType.v ELSE "text/plain"

\* RelayResponse with the headers of the error responses.
RelayResponse_OriginOnly(r) ==
  Response(Plain(r.body), r.status, r.statusText,
           Headers(RelayContentType(r), "*", NoHeader, NoHeader, NoHeader, NoHeader))

\* new Response(responseText, {status, statusText, headers: {...}})
RelayResponse(r) ==
  Response(Plain(r.body), r.status, r.statusText,
           Headers(RelayContentType(r), "*", "POST, OPTIONS", "Content-Type", NoHeader, NoHeader))

\* responseText is a string, never null: with a null-body status the Fetch
\* standard's constructor throws a TypeError, which the catch block turns
\* into a 500; workerd lets a zero-length body through with a warning.
\* rejects says which of the two the runtime does.
Relay(r, rejects) ==
  IF NullBodyStatus(r.status) /\ rejects THEN Return("catch", CaughtError)
  ELSE Return("relay", RelayResponse(r))


(***************************************************************************)
(* The state machine.                                                      *)
(***************************************************************************)
Env(host, user, pass, port) ==
  [LOKI_HOST |-> host, LOKI_USERNAME |-> user, LOKI_PASSWORD |-> pass, LOKI_PORT |-> port]
Request(method, body, headers, query) ==
  [method |-> method, body |-> body, headers |-> headers, query |-> query]
RequestHeaders(cf, xff) == [cf |-> cf, xff |-> xff]
LokiResponse(status, statusText, body, contentType) ==
  [status |-> status, statusText |-> statusText, body |-> body, contentType |-> contentType]

NoRequest == Request("", EmptyBody, RequestHeaders(Null, Null), <<>>)
NoLokiResponse == LokiResponse(0, "", "", Null)

\* A build is deployed with its environment; no request has arrived.
InitWith(variants, envs) ==
  /\ variant \in variants
  /\ env \in envs
  /\ pc = "idle"
  /\ request = NoRequest
  /\ now = 0
  /\ ret = ""
  /\ outbound = <<>>
  /\ lokiResponse = NoLokiResponse
  /\ response = NoResponse

\* The entry point runs on a request, with Date.now() = ms, until it returns
\* a response or awaits the outbound fetch.
\* The entry loop does no I/O between its readings of Date.now(), so one
\* reading ms serves every entry.
Fetch(req, ms) ==
  /\ pc = "idle"
  /\ LET out == fetchEntry(variant, req, env, ms) IN
       /\ pc' = IF out.kind = "fetch" THEN "await" ELSE "done"
       /\ ret' = IF out.kind = "fetch" THEN "" ELSE out.site
       /\ outbound' = outbound \o out.call
       /\ response' = out.response
  /\ request' = req
  /\ now' = ms
  /\ UNCHANGED <<variant, env, lokiResponse>>

\* The fetch resolves with Loki's response r, which is relayed.
LokiResponds(r, rejects) ==
  /\ pc = "await"
  /\ lokiResponse' = r
  /\ LET out == Relay(r, rejects) IN
       /\ ret' = out.site
       /\ response' = out.response
  /\ pc' = "done"
  /\ UNCHANGED <<variant, env, request, now, outbound>>

\* The fetch rejects (Loki unreachable): the catch block answers.
LokiFails ==
  /\ pc = "await"
  /\ ret' = "catch"
  /\ response' = CaughtError
  /\ pc' = "done"
  /\ UNCHANGED <<variant, env, request, now, outbound, lokiResponse>>

\* An invocation handles one request: the requests that may arrive are those
\* of S while none has, and none afterwards.
Arriving(S) == IF pc = "idle" THEN S ELSE {}

(***************************************************************************)
(* Inputs.                                                                 *)
(***************************************************************************)
MaxEntries == 2
MaxKeys == 2
MaxParams == 2
MaxNameLen == 3

SeqsUpTo(S, n) == UNION {[1..k -> S] : k \in 0..n}

GoodEnv == Env(Str("logs.example"), Str("user"), Str("secret"), Undefined)
NoHeaders == RequestHeaders(Null, Null)

\* Log entries.
Hello == LogObj(Str("hello"), Undefined, MetaLeaf(Undefined))
LevelInfo == MetaObj(<<<<"level", Str("info")>>>>)
EntryPool ==
  { Hello,
    LogObj(Str("a"), Str("1700"), LevelInfo),
    LogObj(Str("b"), Num("0"), MetaObj(<<>>)),
    LogObj(Undefined, Str("1700"), LevelInfo),
    LogObj(Str(""), Undefined, MetaLeaf(Undefined)),
    Primitive(Null),
    Primitive(Str("text")),
    Primitive(Num("5")),
    LogObj(Str("c"), Undefined, MetaLeaf(Str("x"))),
    LogObj(Str("d"), Undefined, MetaLeaf(Str(""))),
    LogObj(Str("e"), Undefined, MetaObj(<<<<"level", Str("info")>>, <<"ctx", EmptyObj>>>>)) }

MetaKeys == {"level", "ctx", "tags"}
MetaValues == {Str("info"), Null, EmptyObj, EmptyArr}
MetaObjects ==
  {MetaObj(kv) : kv \in {s \in SeqsUpTo(MetaKeys \X MetaValues, MaxKeys) :
                           \A i, j \in 1..Len(s) : i # j => s[i][1] # s[j][1]}}
MetaLeaves ==
  {MetaLeaf(x) : x \in {Undefined, Null, Str(""), Str("x"), Num("0"), Num("3"),
                        Bool("false"), Bool("true"), EmptyArr, Leaf("arr", "1,2")}}
Messages == {Undefined, Null, Str(""), Str("hello")}
Timestamps == {Undefined, Null, Str(""), Str("1700"), Num("0"), Num("1700")}
RichEntries ==
  {LogObj(m, t, md) : m \in Messages, t \in Timestamps, md \in MetaLeaves \cup MetaObjects}

\* Bodies: one richly varied bare object, or an array of pool entries.
EntryBodies ==
  {JsonBody(JsonValue(e)) : e \in RichEntries \cup EntryPool}
    \cup {JsonBody(JsonArray(s)) : s \in SeqsUpTo(EntryPool, MaxEntries)}
CoreBodies ==
  { EmptyBody, BadJsonBody,
    JsonBody(JsonValue(Hello)),
    JsonBody(JsonValue(Primitive(Null))),
    JsonBody(JsonArray(<<>>)),
    JsonBody(JsonArray(<<Hello, LogObj(Undefined, Undefined, MetaLeaf(Undefined))>>)),
    JsonBody(JsonArray(<<Hello, LogObj(Str("c"), Undefined, MetaLeaf(Str("x")))>>)),
    JsonBody(JsonValue(LogObj(Str("e"), Undefined, MetaObj(<<<<"ctx", EmptyObj>>>>)))) }

\* Label names.
NameChars == {"a", "1", "_", ":", "-"}
L_app == <<"a","p","p">>
L_foo_bar == <<"f","o","o","_","b","a","r">>
L__foo == <<"_","f","o","o">>
L__foo_ == <<"_","f","o","o","_">>
L_foo_colon_bar == <<"f","o","o",":","b","a","r">>
L_1foo == <<"1","f","o","o">>
NamePool == {L_proxy, L_ip, L_app, L_foo_bar, L__foo, L__foo_, L_foo_colon_bar, L_1foo}
GeneratedNames == SeqsUpTo(NameChars, MaxNameLen)
LabelQueries ==
  {<<<<n, "v1">>>> : n \in GeneratedNames}
    \cup SeqsUpTo(NamePool \X {"v1", "v2"}, MaxParams)
CoreQueries ==
  { <<>>, <<<<L_app, "v1">>>>, <<<<L__foo_, "v1">>>>,
    <<<<L_app, "v1">>, <<L_1foo, "v2">>>> }
IpHeaders ==
  {RequestHeaders(cf, xff) : cf \in {Null, Str(""), Str("203.0.113.7")},
                             xff \in {Null, Str(""), Str("198.51.100.9")}}

\* Loki's answers.  A response with a null-body status has an empty text.
LokiStatuses ==
  { <<200, "OK">>, <<204, "No Content">>, <<205, "Reset Content">>, <<304, "Not Modified">>,
    <<400, "Bad Request">>, <<401, "Unauthorized">>, <<429, "Too Many Requests">>,
    <<500, "Internal Server Error">> }
ContentTypes == {Null, Str("application/json"), Str("text/html")}
Delivered(r) == NullBodyStatus(r.status) => r.body = ""
LokiResponses ==
  {r \in {LokiResponse(s[1], s[2], b, ct) :
            s \in LokiStatuses, b \in {"", "entry too far behind"}, ct \in ContentTypes} :
     Delivered(r)}
CoreLokiResponses ==
  {r \in LokiResponses : r.status \in {204, 400, 500} /\ r.contentType # Str("text/html")}

(***************************************************************************)
(* Spec: every method, every configuration, the three builds.              *)
(***************************************************************************)
Methods == {"GET", "POST", "OPTIONS", "PUT"}
CredentialEnvs ==
  {Env(h, u, p, Undefined) : h \in {Undefined, Str(""), Str("logs.example")},
                             u \in {Undefined, Str("user")},
                             p \in {Str(""), Str("secret")}}
CoreRequests ==
  {Request(m, b, NoHeaders, q) : m \in Methods, b \in CoreBodies, q \in CoreQueries}

Init == InitWith({1, 2, 3}, CredentialEnvs)
Next ==
  \/ \E req \in Arriving(CoreRequests) : Fetch(req, 1)
  \/ \E r \in CoreLokiResponses, rejects \in BOOLEAN : LokiResponds(r, rejects)
  \/ LokiFails
Spec == Init /\ [][Next]_vars

(***************************************************************************)
(* SpecEntries: the JSON builds on richly varied bodies.                   *)
(***************************************************************************)
EntryRequests == {Request("POST", b, NoHeaders, <<>>) : b \in EntryBodies}
OkResponses == {LokiResponse(200, "OK", "", Str("application/json"))}

InitEntries == InitWith({1, 3}, {GoodEnv})
NextEntries ==
  \/ \E req \in Arriving(EntryRequests), ms \in {1, 2} : Fetch(req, ms)
  \/ \E r \in OkResponses : LokiResponds(r, FALSE)
  \/ LokiFails
SpecEntries == InitEntries /\ [][NextEntries]_vars

(***************************************************************************)
(* SpecLabels: the label-aware build on richly varied query strings.       *)
(***************************************************************************)
LabelRequests ==
  {Request("POST", JsonBody(JsonValue(Hello)), h, q) : h \in IpHeaders, q \in LabelQueries}

InitLabels == InitWith({3}, {GoodEnv})
NextLabels ==
  \/ \E req \in Arriving(LabelRequests) : Fetch(req, 1)
  \/ \E r \in OkResponses : LokiResponds(r, FALSE)
  \/ LokiFails
SpecLabels == InitLabels /\ [][NextLabels]_vars

(***************************************************************************)
(* SpecDispatch: every port setting and every answer of Loki.              *)
(***************************************************************************)
Ports == {Undefined, Str(""), Str("443"), Str("8080"), Str("3100"), Num("443"), Num("0"), Num("3100")}
PortEnvs == {Env(Str("logs.example"), Str("user"), Str("secret"), p) : p \in Ports}
DispatchRequests ==
  {Request("POST", JsonBody(JsonValue(Hello)), NoHeaders, q) : q \in {<<>>, <<<<L_app, "v1">>>>}}

InitDispatch == InitWith({1, 2, 3}, PortEnvs)
NextDispatch ==
  \/ \E req \in Arriving(DispatchRequests) : Fetch(req, 1)
  \/ \E r \in LokiResponses, rejects \in BOOLEAN : LokiResponds(r, rejects)
  \/ LokiFails
SpecDispatch == InitDispatch /\ [][NextDispatch]_vars


(***************************************************************************)
(* What the claims speak of, stated without the handler's operators.       *)
(***************************************************************************)
Handled == pc \in {"await", "done"}
Answered == pc = "done"
Posted == Handled /\ request.method = "POST"
Configured ==
  \A x \in {env.LOKI_HOST, env.LOKI_USERNAME, env.LOKI_PASSWORD} :
    x \notin {Undefined, Null, Str("")}
Entries == IF request.body.data.t = "arr" THEN request.body.data.items
           ELSE <<AsEntry(request.body.data)>>
Parsed == Posted /\ Configured /\ ~request.body.empty /\ request.body.parses
Sent == IF outbound = <<>> THEN <<>> ELSE outbound[1].payload.values

Falsy == {Undefined, Null, Str(""), Num("0"), Bool("false")}
HasMessage(e) == e.t = "obj" /\ e.message \notin Falsy
NestedValue(x) == x.t \in {"obj", "arr"}
FlatObject(md) == md.t = "obj" /\ \A k \in 1..Len(md.kv) : ~NestedValue(md.kv[k][2])
MetadataAbsent(e) == e.metadata.t = "undefined"
\* Present, and a string, number, boolean or array, or an object with a
\* nested value.
MetadataBad(e) ==
  \/ e.metadata.t \in {"str", "num", "bool", "arr"}
  \/ e.metadata.t = "obj" /\ ~FlatObject(e.metadata)
EntryValidated(e) ==
  /\ HasMessage(e)
  /\ e.metadata \in {MetaLeaf(x) : x \in Falsy} \/ FlatObject(e.metadata)

FirstChars == Lower \cup Upper \cup {"_", ":"}
RestChars == FirstChars \cup Digit
ValidLabel(name) ==
  /\ name # <<>>
  /\ Head(name) \in FirstChars
  /\ \A i \in DOMAIN Tail(name) : Tail(name)[i] \in RestChars
  /\ ~(Head(name) = "_" /\ name[Len(name)] = "_")
QueryNames == {request.query[i][1] : i \in 1..Len(request.query)}
InvalidParams == {i \in 1..Len(request.query) : ~ValidLabel(request.query[i][1])}
Min(S) == CHOOSE i \in S : \A j \in S : i <= j
Max(S) == CHOOSE i \in S : \A j \in S : i >= j

ChecksPassed ==
  /\ request.method = "POST"
  /\ Configured
  /\ ~request.body.empty
  /\ variant \in {1, 3} =>
       request.body.parses /\ \A i \in 1..Len(Entries) : EntryValidated(Entries[i])
  /\ variant = 3 => InvalidParams = {}

Rejection ==
  \/ response.status \in {400, 405}
  \/ response.status = 500
       /\ response.body = Plain("Server configuration error: Missing Loki credentials")

(***************************************************************************)
(* C1                                                                      *)
(***************************************************************************)
\* C1 as stated: the outbound fetch is issued at most once and only after
\* every check has passed, and a request that ends in a 400, 405 or
\* configuration-500 response has made no outbound call.
C1_NoCallBeforeRejection ==
  /\ Len(outbound) <= 1
  /\ outbound # <<>> => ChecksPassed
  /\ Answered /\ Rejection => outbound = <<>>

\* C1 amended: the outbound fetch is issued at most once and only after every
\* check has passed, and a request that ends in a 405, a configuration 500 or
\* a 400 the handler itself produced (not a 400 relayed from Loki) has made
\* no outbound call.
C1_NoCallBeforeOwnRejection ==
  /\ Len(outbound) <= 1
  /\ outbound # <<>> => ChecksPassed
  /\ Answered /\ Rejection /\ ret # "relay" => outbound = <<>>

\* Loki rejected a dispatched push with 400 and the 400 was relayed.
C1_Witness ==
  /\ Answered /\ variant = 3 /\ request.query # <<>>
  /\ Len(outbound) = 1 /\ ret = "relay" /\ response.status = 400


(***************************************************************************)
(* C8, C10                                                                 *)
(***************************************************************************)
\* C8 as stated: every response of the entry point carries
\* Access-Control-Allow-Origin: *.
C8_EveryResponseAllowsOrigin ==
  Answered => response.headers.AllowOrigin = "*"

\* C8 amended: every response of the entry point other than the 302
\* redirect answering a GET carries Access-Control-Allow-Origin: *.
C8_AllButRedirectAllowOrigin ==
  Answered /\ ret # "redirect" => response.headers.AllowOrigin = "*"

\* A PUT was refused with 405 and the refusal allows every origin.
C8_Witness ==
  /\ Answered /\ request.method = "PUT"
  /\ response.status = 405 /\ response.headers.AllowOrigin = "*"

\* C10 as stated: every response to a POST carries
\* Access-Control-Allow-Methods and Access-Control-Allow-Headers in addition
\* to Access-Control-Allow-Origin.
C10_EveryPostResponseFullCors ==
  Answered /\ request.method = "POST" =>
    /\ response.headers.AllowOrigin # NoHeader
    /\ response.headers.AllowMethods # NoHeader
    /\ response.headers.AllowHeaders # NoHeader

\* C10 amended: a response to a POST that relays Loki's response carries
\* Access-Control-Allow-Methods and Access-Control-Allow-Headers in addition
\* to Access-Control-Allow-Origin; the responses the handler builds itself
\* (configuration 500, validation 400, caught-exception 500) carry
\* Access-Control-Allow-Origin alone.
C10_RelayedPostResponseFullCors ==
  Answered /\ request.method = "POST" =>
    /\ response.headers.AllowOrigin = "*"
    /\ ret = "relay" =>
         /\ response.headers.AllowMethods = "POST, OPTIONS"
         /\ response.headers.AllowHeaders = "Content-Type"
    /\ ret # "relay" =>
         /\ response.headers.AllowMethods = NoHeader
         /\ response.headers.AllowHeaders = NoHeader

\* Loki's 500 was relayed to the caller of a POST.
C10_Witness ==
  /\ Answered /\ request.method = "POST" /\ ret = "relay"
  /\ lokiResponse.status = 500 /\ response.headers.AllowMethods = "POST, OPTIONS"

(***************************************************************************)
(* C2, C3, C4                                                              *)
(***************************************************************************)
Structured == Parsed /\ variant \in {1, 3}
AllHaveMessage == \A i \in 1..Len(Entries) : HasMessage(Entries[i])

\* C2: in the JSON builds, a parsed submission with an entry that lacks a
\* non-empty message (entries that are no objects included) is answered 400
\* and nothing of it is sent to Loki.
C2_MissingMessageRejectsAll ==
  Structured /\ ~AllHaveMessage => outbound = <<>> /\ response.status = 400

\* C3: the tuple the claim expects for entry e with timestamp text ts.
ExpectedTuple(e, ts) ==
  IF e.metadata.t = "obj" /\ Len(e.metadata.kv) >= 1
    THEN <<ts, e.message, e.metadata>>
    ELSE <<ts, e.message>>
Accepted ==
  /\ Structured
  /\ AllHaveMessage
  /\ \A i \in 1..Len(Entries) : MetadataAbsent(Entries[i]) \/ FlatObject(Entries[i].metadata)

\* C3 as stated: an accepted submission is sent as one tuple per entry, in
\* order, of three elements when the metadata has a key and of two
\* otherwise, with the entry's own timestamp as text when one is supplied
\* and the current time in nanoseconds otherwise.
C3_TuplePerEntry ==
  Accepted =>
    /\ Len(outbound) = 1
    /\ Len(Sent) = Len(Entries)
    /\ \A i \in 1..Len(Entries) :
         Sent[i] = ExpectedTuple(Entries[i],
                     IF Entries[i].timestamp # Undefined THEN Entries[i].timestamp.v
                     ELSE ToString(now * 1000000))

\* C3 amended: as stated, except that the entry's own timestamp is used only
\* when it is supplied and truthy; a timestamp of null, "", 0 or false is
\* replaced by the current time in nanoseconds like an absent one.
C3_TuplePerEntryTruthyTimestamp ==
  Accepted =>
    /\ Len(outbound) = 1
    /\ Len(Sent) = Len(Entries)
    /\ \A i \in 1..Len(Entries) :
         Sent[i] = ExpectedTuple(Entries[i],
                     IF Entries[i].timestamp \notin Falsy THEN Entries[i].timestamp.v
                     ELSE ToString(now * 1000000))

\* Two entries were sent: the first with its own timestamp and its metadata,
\* the second with a timestamp of 0 and empty metadata.
C3_Witness ==
  /\ Accepted /\ now = 2
  /\ Sent = << <<"1700", Str("a"), LevelInfo>>, <<"2000000", Str("b")>> >>

\* C4: in the JSON builds, a parsed submission whose entries all carry a
\* message and one of which has metadata that is a string, number, boolean
\* or array ("", 0 and false included) or an object with a nested value is
\* answered 400 and nothing is sent; for a nested value the text names the
\* first offending key of the first offending entry.
BadMetadataEntries == {i \in 1..Len(Entries) : MetadataBad(Entries[i])}
FirstNestedKey(md) == md.kv[Min({k \in 1..Len(md.kv) : NestedValue(md.kv[k][2])})][1]
C4_BadMetadataRejectsAll ==
  Structured /\ AllHaveMessage /\ BadMetadataEntries # {} =>
    /\ outbound = <<>>
    /\ response.status = 400
    /\ LET e == Entries[Min(BadMetadataEntries)] IN
         e.metadata.t = "obj" => response.body.key = FirstNestedKey(e.metadata)

(***************************************************************************)
(* C5, C6                                                                  *)
(***************************************************************************)
Labelled ==
  /\ Parsed /\ variant = 3
  /\ \A i \in 1..Len(Entries) : EntryValidated(Entries[i])

ExpectedIp ==
  IF request.headers.cf \notin {Null, Str("")} THEN request.headers.cf.v
  ELSE IF request.headers.xff \notin {Null, Str("")} THEN request.headers.xff.v
  ELSE "unknown"
LastValue(n) == request.query[Max({i \in 1..Len(request.query) : request.query[i][1] = n})][2]

\* C6: in the label-aware build the labels sent have proxy = "miti-loki" and
\* ip = CF-Connecting-IP if present and non-empty, else X-Forwarded-For if
\* present and non-empty, else "unknown", whatever the query string gave for
\* proxy and ip; every other query parameter is a label with the value of
\* its last occurrence.
C6_InjectedLabelsWin ==
  Labelled /\ outbound # <<>> =>
    LET stream == outbound[1].payload.stream IN
      /\ DOMAIN stream = QueryNames \cup {L_proxy, L_ip}
      /\ stream[L_proxy] = "miti-loki"
      /\ stream[L_ip] = ExpectedIp
      /\ \A n \in QueryNames \ {L_proxy, L_ip} : stream[n] = LastValue(n)

\* The caller gave proxy and ip in the query string behind a forwarding
\* header; the labels sent carry the worker's values.
C6_Witness ==
  /\ Labelled /\ outbound # <<>>
  /\ request.query = << <<L_proxy, "v1">>, <<L_ip, "v2">> >>
  /\ request.headers = RequestHeaders(Str(""), Str("198.51.100.9"))
  /\ outbound[1].payload.stream[L_ip] = "198.51.100.9"

PushUrl(scheme, port) ==
  [scheme |-> scheme, host |-> env.LOKI_HOST.v, port |-> port, path |-> "/loki/api/v1/push"]

\* C9 as stated: the outbound URL is <scheme>://<LOKI_HOST>:<port>/loki/api/v1/push
\* with port LOKI_PORT, or 443 when LOKI_PORT is unset, and scheme https
\* when LOKI_PORT is unset or "443" and http for every other value.
C9_UrlFromPort ==
  outbound # <<>> =>
    outbound[1].url =
      PushUrl(IF env.LOKI_PORT \in {Undefined, Str("443")} THEN "https" ELSE "http",
              IF env.LOKI_PORT = Undefined THEN "443" ELSE env.LOKI_PORT.v)

\* C9 amended: the port is LOKI_PORT, or 443 when LOKI_PORT is unset or
\* falsy (the empty string, 0); the scheme is https when LOKI_PORT is unset,
\* falsy or the text "443", and http for every other value (a numeric 443
\* included).
C9_UrlFromTruthyPort ==
  outbound # <<>> =>
    outbound[1].url =
      PushUrl(IF env.LOKI_PORT \in Falsy \cup {Str("443")} THEN "https" ELSE "http",
              IF env.LOKI_PORT \in Falsy THEN "443" ELSE env.LOKI_PORT.v)

\* With LOKI_PORT set to the empty string the push went to https port 443.
C9_Witness ==
  /\ outbound # <<>> /\ env.LOKI_PORT = Str("")
  /\ outbound[1].url.scheme = "https" /\ outbound[1].url.port = "443"


====
